---- MODULE Spec2Model ----
(***************************************************************************)
(* Model of generator2/src/lib.rs: the Context built from a vk::Registry   *)
(* (indices and extension-enum aggregates) and the name derivation         *)
(* functions of Context.                                                   *)
(*                                                                         *)
(* A Rust &str / String is a sequence of one-character strings.            *)
(* Option<T> is a sequence of length 0 (None) or 1 (Some(x) == <<x>>).     *)
(***************************************************************************)
EXTENDS Integers, Sequences, FiniteSets, TLC

VARIABLES registry, ctx, pc, call

vars == <<registry, ctx, pc, call>>

(***************************************************************************)
(* Bounds of the model.                                                    *)
(***************************************************************************)
MaxOwnerLen == 3
MaxVariantTokens == 3
MaxTypeLen == 5
MaxRegistryLen == 2

(***************************************************************************)
(* Characters and strings.                                                 *)
(***************************************************************************)
Upper == <<"A","B","C","D","E","F","G","H","I","J","K","L","M",
           "N","O","P","Q","R","S","T","U","V","W","X","Y","Z">>
Lower == <<"a","b","c","d","e","f","g","h","i","j","k","l","m",
           "n","o","p","q","r","s","t","u","v","w","x","y","z">>
Digit == <<"0","1","2","3","4","5","6","7","8","9">>

\* The characters of the model in ASCII order: digits, upper case, '_', lower case.
Ascii == Digit \o Upper \o <<"_">> \o Lower

Ord(c) == CHOOSE i \in 1..Len(Ascii) : Ascii[i] = c

is_uppercase(c) == \E i \in 1..Len(Upper) : Upper[i] = c
is_lowercase(c) == \E i \in 1..Len(Lower) : Lower[i] = c

char_to_uppercase(c) ==
    IF is_lowercase(c) THEN Upper[CHOOSE i \in 1..Len(Lower) : Lower[i] = c] ELSE c

to_uppercase(s) == [i \in 1..Len(s) |-> char_to_uppercase(s[i])]

None == <<>>
Some(x) == <<x>>

\* str's Ord: byte-wise lexicographic order, a proper prefix first.
RECURSIVE str_lt(_, _)
str_lt(a, b) ==
    IF b = <<>> THEN FALSE
    ELSE IF a = <<>> THEN TRUE
    ELSE IF a[1] # b[1] THEN Ord(a[1]) < Ord(b[1])
    ELSE str_lt(Tail(a), Tail(b))

starts_with(s, pat) == Len(pat) <= Len(s) /\ SubSeq(s, 1, Len(pat)) = pat

\* str::split('_'): the pieces between the separators; "" yields one empty piece.
RECURSIVE split_from(_, _, _)
split_from(s, i, cur) ==
    IF i > Len(s) THEN <<cur>>
    ELSE IF s[i] = "_" THEN <<cur>> \o split_from(s, i + 1, <<>>)
    ELSE split_from(s, i + 1, Append(cur, s[i]))

split(s) == split_from(s, 1, <<>>)

\* [&str]::join("_")
RECURSIVE join(_)
join(v) ==
    IF v = <<>> THEN <<>>
    ELSE IF Len(v) = 1 THEN v[1]
    ELSE v[1] \o <<"_">> \o join(Tail(v))

(***************************************************************************)
(* heck::ShoutySnakeCase::to_shouty_snake_case, for strings of letters,    *)
(* digits and underscores (one unicode word): a word boundary after a      *)
(* character followed by '_', between a lower-case and an upper-case       *)
(* character, and before the last upper-case character of an upper-case    *)
(* run that is followed by a lower-case one; words are upper-cased and     *)
(* joined by '_'.                                                          *)
(***************************************************************************)
boundary(out, first_word) == IF first_word THEN out ELSE out \o <<"_">>

RECURSIVE transform(_, _, _, _, _, _)
transform(word, i, init, mode, first_word, out) ==
    IF i > Len(word) THEN out
    ELSE IF word[i] = "_"
         THEN transform(word, i + 1, IF init = i THEN init + 1 ELSE init,
                        mode, first_word, out)
    ELSE IF i = Len(word)
         THEN boundary(out, first_word) \o to_uppercase(SubSeq(word, init, Len(word)))
    ELSE LET c == word[i]
             next == word[i + 1]
             next_mode == IF is_lowercase(c) THEN "Lowercase"
                          ELSE IF is_uppercase(c) THEN "Uppercase"
                          ELSE mode
         IN  IF next = "_" \/ (next_mode = "Lowercase" /\ is_uppercase(next))
             THEN transform(word, i + 1, i + 1, "Boundary", FALSE,
                            boundary(out, first_word)
                                \o to_uppercase(SubSeq(word, init, i)))
             ELSE IF mode = "Uppercase" /\ is_uppercase(c) /\ is_lowercase(next)
             THEN transform(word, i + 1, i, "Boundary", FALSE,
                            boundary(out, first_word)
                                \o to_uppercase(SubSeq(word, init, i - 1)))
             ELSE transform(word, i + 1, init, next_mode, first_word, out)

to_shouty_snake_case(s) == transform(s, 1, 1, "Boundary", TRUE, <<>>)

(***************************************************************************)
(* EnumKind::from_str and EnumExt::enum_kind.  A panic is the outcome      *)
(* Panic: nothing is returned.                                             *)
(***************************************************************************)
Panic == "panic"

str_bitmask == <<"b","i","t","m","a","s","k">>
str_enum == <<"e","n","u","m">>

\* Variant of from_str that falls back to Constant for an unknown marker.
from_str_defaulting(s) ==
    IF s = str_bitmask THEN "Bitflag"
    ELSE IF s = str_enum THEN "Enum"
    ELSE "Constant"

\* match s { "bitmask" => Bitflag, "enum" => Enum, unknown => panic!(..) }
from_str(s) ==
    IF s = str_bitmask THEN "Bitflag"
    ELSE IF s = str_enum THEN "Enum"
    ELSE Panic

enum_kind(kind) ==
    IF kind = None THEN "Constant" ELSE from_str(kind[1])

(***************************************************************************)
(* Context::rust_type_name.                                                *)
(***************************************************************************)
TYPE_PREFIX == <<"V","k">>

\* Variant of trim_start_matches that removes the pattern at most once.
trim_start_matches_once(s, pat) ==
    IF pat # <<>> /\ starts_with(s, pat)
    THEN SubSeq(s, Len(pat) + 1, Len(s))
    ELSE s

\* str::trim_start_matches(pat): removes the pattern from the front for as
\* long as the string starts with it.
RECURSIVE trim_start_matches(_, _)
trim_start_matches(s, pat) ==
    IF pat # <<>> /\ starts_with(s, pat)
    THEN trim_start_matches(SubSeq(s, Len(pat) + 1, Len(s)), pat)
    ELSE s

\* Variant of rust_type_name that removes the prefix once (str::strip_prefix).
rust_type_name_once(name) ==
    IF starts_with(name, TYPE_PREFIX)
    THEN SubSeq(name, Len(TYPE_PREFIX) + 1, Len(name))
    ELSE name

rust_type_name(name) == trim_start_matches(name, TYPE_PREFIX)

(***************************************************************************)
(* Context::rust_enum_variant_name, statement by statement.                *)
(***************************************************************************)
str_BIT == <<"B","I","T">>

Last(v) == v[Len(v)]
Front(v) == SubSeq(v, 1, Len(v) - 1)

\* Variant of zip_prefix that pads whichever side is shorter.
zip_prefix_padding_both(p, v) ==
    LET n == IF Len(p) > Len(v) THEN Len(p) ELSE Len(v)
    IN  [i \in 1..n |-> << IF i <= Len(p) THEN p[i] ELSE <<>>,
                           IF i <= Len(v) THEN v[i] ELSE <<>> >>]

\* Iterator::zip(prefix.split('_').chain(repeat("")), variant_name.split('_')):
\* the left side never ends, so the zip ends with the right side.
zip_prefix(p, v) ==
    [i \in 1..Len(v) |-> << IF i <= Len(p) THEN p[i] ELSE <<>>, v[i] >>]

\* Variant of filter_map that only drops the leading run of equal pairs.
RECURSIVE filter_map_leading(_)
filter_map_leading(pairs) ==
    IF pairs # <<>> /\ pairs[1][1] = pairs[1][2]
    THEN filter_map_leading(Tail(pairs))
    ELSE [i \in 1..Len(pairs) |-> pairs[i][2]]

\* .filter(|(left, right)| left != right).map(|(_, a)| a).collect()
filter_map(pairs) ==
    LET kept == SelectSeq(pairs, LAMBDA pr : pr[1] # pr[2])
    IN  [i \in 1..Len(kept) |-> kept[i][2]]

\* Variant of remove_vendor_ext without the length guard.
remove_vendor_ext_unguarded(name_str, tags) ==
    IF name_str # <<>> /\ Last(name_str) \in tags
    THEN Front(name_str) ELSE name_str

\* "Remove vendor ext": pops the last token when it is a tag and not alone.
remove_vendor_ext(name_str, tags) ==
    IF name_str # <<>> /\ Len(name_str) > 1 /\ Last(name_str) \in tags
    THEN Front(name_str) ELSE name_str

\* Variant of remove_bit that pops every trailing "BIT".
RECURSIVE remove_bit_repeated(_)
remove_bit_repeated(name_str) ==
    IF name_str # <<>> /\ Last(name_str) = str_BIT
    THEN remove_bit_repeated(Front(name_str)) ELSE name_str

\* if let Some(&"BIT") = name_str.last() { name_str.pop() }
remove_bit(name_str) ==
    IF name_str # <<>> /\ Last(name_str) = str_BIT
    THEN Front(name_str) ELSE name_str

\* The values rust_enum_variant_name computes, in the order it computes them.
rust_enum_variant_name(tags, enum_name, variant_name) ==
    LET prefix == to_shouty_snake_case(enum_name)
        pairs == zip_prefix(split(prefix), split(variant_name))
        stripped == filter_map(pairs)
        after_tag == remove_vendor_ext(stripped, tags)
        name_str == remove_bit(after_tag)
    IN  [prefix |-> prefix, pairs |-> pairs, stripped |-> stripped,
         after_tag |-> after_tag, name_str |-> name_str,
         result |-> join(name_str)]

(***************************************************************************)
(* BTreeMap<&str, _>: a function on its key set, iterated in key order.    *)
(***************************************************************************)
EmptyMap == <<>>

insert(m, k, v) == [x \in (DOMAIN m) \cup {k} |-> IF x = k THEN v ELSE m[x]]

RECURSIVE sorted(_)
sorted(S) ==
    IF S = {} THEN <<>>
    ELSE LET least == CHOOSE x \in S : \A y \in S \ {x} : str_lt(x, y)
         IN  <<least>> \o sorted(S \ {least})

\* BTreeMap::iter: the (key, value) pairs in ascending key order.
iter(m) == LET ks == sorted(DOMAIN m) IN [i \in 1..Len(ks) |-> <<ks[i], m[ks[i]]>>]

RECURSIVE flatten(_)
flatten(ss) == IF ss = <<>> THEN <<>> ELSE ss[1] \o flatten(Tail(ss))

\* The children of the registry children of one kind, in registry order.
children_of(reg, kind) ==
    flatten([i \in 1..Len(reg) |->
                IF reg[i].kind = kind THEN reg[i].children ELSE <<>>])

(***************************************************************************)
(* Context and the collect_* passes of Context::from_registry.             *)
(***************************************************************************)
NewContext ==
    [extension_by_name |-> EmptyMap,
     type_by_name |-> EmptyMap,
     enums_by_name |-> EmptyMap,
     extension_enums |-> EmptyMap,
     tags |-> {},
     tags_iter |-> <<>>]

\* for tag in &tags.children { self.tags.insert(&tag.name) }
collect_tags(tags, reg) ==
    LET declared == children_of(reg, "Tags")
    IN  tags \cup {declared[i].name : i \in 1..Len(declared)}

\* self.extension_by_name.insert(&ext.name, ext), in registry order.
RECURSIVE insert_extensions(_, _)
insert_extensions(m, exts) ==
    IF exts = <<>> THEN m
    ELSE insert_extensions(insert(m, exts[1].name, exts[1]), Tail(exts))

collect_extensions(m, reg) == insert_extensions(m, children_of(reg, "Extensions"))

\* enums.name.as_ref().expect("Missing enum name")
collect_enums_panics(reg) ==
    \E i \in 1..Len(reg) : reg[i].kind = "Enums" /\ reg[i].name = None

RECURSIVE collect_enums(_, _)
collect_enums(m, reg) ==
    IF reg = <<>> THEN m
    ELSE IF reg[1].kind = "Enums"
         THEN collect_enums(insert(m, reg[1].name[1], reg[1]), Tail(reg))
         ELSE collect_enums(m, Tail(reg))

\* get_extends_from_enum: Option<&str>
get_extends_from_enum(e) ==
    IF e.spec.variant \in {"Alias", "Bitpos", "Value"} THEN e.spec.extends
    ELSE IF e.spec.variant = "Offset" THEN Some(e.spec.extends)
    ELSE None

\* Variant of extend_entry in which the latest contributor becomes the
\* aggregate's extension.
extend_entry_overwrite(aggs, extends, name, e) ==
    LET old == IF extends \in DOMAIN aggs THEN aggs[extends].enums ELSE <<>>
    IN  insert(aggs, extends, [extension |-> name, enums |-> Append(old, e)])

\* self.extension_enums.entry(extends).or_insert(ExtensionEnum { extension:
\* name, enums: Vec::new() }).enums.push(e)
extend_entry(aggs, extends, name, e) ==
    LET cur == IF extends \in DOMAIN aggs THEN aggs[extends]
               ELSE [extension |-> name, enums |-> <<>>]
    IN  insert(aggs, extends, [cur EXCEPT !.enums = Append(@, e)])

RECURSIVE extend_items(_, _, _)
extend_items(aggs, name, items) ==
    IF items = <<>> THEN aggs
    ELSE LET item == items[1]
             extends == IF item.kind = "Enum" THEN get_extends_from_enum(item.e)
                        ELSE None
         IN  extend_items(IF extends # None
                          THEN extend_entry(aggs, extends[1], name, item.e)
                          ELSE aggs,
                          name, Tail(items))

RECURSIVE extend_children(_, _, _)
extend_children(aggs, name, children) ==
    IF children = <<>> THEN aggs
    ELSE extend_children(IF children[1].kind = "Require"
                         THEN extend_items(aggs, name, children[1].items)
                         ELSE aggs,
                         name, Tail(children))

RECURSIVE extend_extensions(_, _)
extend_extensions(aggs, exts) ==
    IF exts = <<>> THEN aggs
    ELSE extend_extensions(extend_children(aggs, exts[1][1], exts[1][2].children),
                           Tail(exts))

\* for (name, extension) in &self.extension_by_name { ... }
collect_extended_enums(aggs, extension_by_name) ==
    extend_extensions(aggs, iter(extension_by_name))

(***************************************************************************)
(* Registries the model is run on: sequences of registry children drawn    *)
(* from a pool of Tags, Extensions, Enums, Types and Comment children.     *)
(***************************************************************************)
s_VkF == <<"V","k","F">>
s_VkG == <<"V","k","G">>
s_X == <<"X">>
s_XB == <<"X","B">>
s_Xb == <<"X","b">>
s_NV == <<"N","V">>
s_KHR == <<"K","H","R">>

Enumerant(name, variant, extends) ==
    [name |-> name, spec |-> [variant |-> variant, extends |-> extends]]

EnumItem(e) == [kind |-> "Enum", e |-> e]
TypeItem(name) == [kind |-> "Type", name |-> name]

e1 == Enumerant(<<"E","1">>, "Offset", s_VkF)
e2 == Enumerant(<<"E","2">>, "Value", None)
e3 == Enumerant(<<"E","3">>, "Bitpos", Some(s_VkG))
e4 == Enumerant(<<"E","4">>, "Offset", s_VkF)
e5 == Enumerant(<<"E","5">>, "Alias", Some(s_VkF))
e6 == Enumerant(<<"E","6">>, "Value", Some(s_VkF))
e7 == Enumerant(<<"E","7">>, "None", None)
e8 == Enumerant(<<"E","8">>, "Offset", s_VkG)
e9 == Enumerant(<<"E","9">>, "Bitpos", None)

TagsA == [kind |-> "Tags", children |-> <<[name |-> s_NV], [name |-> str_BIT]>>]
TagsB == [kind |-> "Tags", children |-> <<[name |-> s_NV], [name |-> s_KHR]>>]

\* Extensions "Xb" and "XB": require and remove blocks, every payload variant.
ExtsA ==
    [kind |-> "Extensions",
     children |-> <<
        [name |-> s_Xb,
         children |-> <<
            [kind |-> "Require",
             items |-> <<EnumItem(e1), TypeItem(s_VkF), EnumItem(e2), EnumItem(e3)>>],
            [kind |-> "Remove", items |-> <<EnumItem(e4)>>] >>],
        [name |-> s_XB,
         children |-> << [kind |-> "Require", items |-> <<EnumItem(e5)>>] >>] >>]

\* A second declaration of "Xb", and "X", whose name is a prefix of the others.
ExtsB ==
    [kind |-> "Extensions",
     children |-> <<
        [name |-> s_Xb,
         children |-> <<
            [kind |-> "Require", items |-> <<EnumItem(e6)>>],
            [kind |-> "Require", items |-> <<EnumItem(e7), EnumItem(e9)>>] >>],
        [name |-> s_X,
         children |-> << [kind |-> "Require", items |-> <<EnumItem(e8), EnumItem(e4)>>] >>] >>]

EnumsF == [kind |-> "Enums", name |-> Some(s_VkF), marker |-> Some(str_enum)]
EnumsF2 == [kind |-> "Enums", name |-> Some(s_VkF), marker |-> Some(str_bitmask)]
EnumsG == [kind |-> "Enums", name |-> Some(s_VkG), marker |-> None]
EnumsUnnamed == [kind |-> "Enums", name |-> None, marker |-> None]

TypesA == [kind |-> "Types", children |-> <<[name |-> s_VkF], [name |-> s_VkG]>>]

Comment == [kind |-> "Comment"]

NodePool ==
    {TagsA, TagsB, ExtsA, ExtsB, EnumsF, EnumsF2, EnumsG, EnumsUnnamed, TypesA, Comment}

Registries == UNION {[1..n -> NodePool] : n \in 0..MaxRegistryLen}

\* The sequences with the same elements as s, in every order.
Perms(s) ==
    {[i \in 1..Len(s) |-> s[p[i]]] :
        p \in {q \in [1..Len(s) -> 1..Len(s)] :
                  \A i, j \in 1..Len(s) : q[i] = q[j] => i = j}}

\* The orders in which a HashSet may yield its elements.
SetOrders(S) ==
    {s \in [1..Cardinality(S) -> S] :
        \A i, j \in 1..Cardinality(S) : s[i] = s[j] => i = j}

(***************************************************************************)
(* Context::from_registry, run twice: build 1 on a registry, build 2 on    *)
(* the same registry children in another order.  pc[b] is the position of  *)
(* build b in from_registry.                                               *)
(***************************************************************************)
Builds == {1, 2}

Terminal == {"Ok", "Err", "panicked"}

NoCall == [op |-> "none", panicked |-> FALSE]

Init ==
    /\ \E r1 \in Registries : \E r2 \in Perms(r1) : registry = <<r1, r2>>
    /\ ctx = [b \in Builds |-> NewContext]
    /\ pc = [b \in Builds |-> "new"]
    /\ call = NoCall

\* The second run starts when the first has ended.
Turn(b) == b = 1 \/ pc[1] \in Terminal

CollectExtensions ==
    \E b \in Builds :
        /\ Turn(b)
        /\ pc[b] = "new"
        /\ ctx' = [ctx EXCEPT ![b].extension_by_name =
                                  collect_extensions(@, registry[b])]
        /\ pc' = [pc EXCEPT ![b] = "extensions"]
        /\ UNCHANGED <<registry, call>>

CollectEnums ==
    \E b \in Builds :
        /\ Turn(b)
        /\ pc[b] = "extensions"
        /\ IF collect_enums_panics(registry[b])
           THEN /\ pc' = [pc EXCEPT ![b] = "panicked"]
                /\ UNCHANGED ctx
           ELSE /\ ctx' = [ctx EXCEPT ![b].enums_by_name =
                                          collect_enums(@, registry[b])]
                /\ pc' = [pc EXCEPT ![b] = "enums"]
        /\ UNCHANGED <<registry, call>>

CollectTags ==
    \E b \in Builds :
        /\ Turn(b)
        /\ pc[b] = "enums"
        /\ LET tags == collect_tags(ctx[b].tags, registry[b])
           IN  \E order \in SetOrders(tags) :
                   ctx' = [ctx EXCEPT ![b].tags = tags, ![b].tags_iter = order]
        /\ pc' = [pc EXCEPT ![b] = "tags"]
        /\ UNCHANGED <<registry, call>>

CollectExtendedEnums ==
    \E b \in Builds :
        /\ Turn(b)
        /\ pc[b] = "tags"
        /\ ctx' = [ctx EXCEPT ![b].extension_enums =
                                  collect_extended_enums(@, ctx[b].extension_by_name)]
        /\ pc' = [pc EXCEPT ![b] = "extended_enums"]
        /\ UNCHANGED <<registry, call>>

\* File::create("enums.rs")? then write_enums(&ctx, ..) and Ok(ctx): the
\* Context is only read; creating the file succeeds or fails.
WriteEnums ==
    \E b \in Builds :
        /\ Turn(b)
        /\ pc[b] = "extended_enums"
        /\ \E created \in BOOLEAN :
               pc' = [pc EXCEPT ![b] = IF created THEN "Ok" ELSE "Err"]
        /\ UNCHANGED <<registry, ctx, call>>

Next ==
    \/ CollectExtensions
    \/ CollectEnums
    \/ CollectTags
    \/ CollectExtendedEnums
    \/ WriteEnums

Spec == Init /\ [][Next]_vars

(***************************************************************************)
(* The queries of the emitter on a built Context: enum_kind on an enum     *)
(* group, rust_type_name and rust_enum_variant_name.  call is the call in  *)
(* progress with the values it computed; a panic ends the run.             *)
(***************************************************************************)
s_VkResult == <<"V","k","R","e","s","u","l","t">>
s_VkImageType == <<"V","k","I","m","a","g","e","T","y","p","e">>
s_VK_ERROR_OUT_OF_HOST_MEMORY == <<"V","K","_","E","R","R","O","R","_","O","U","T","_","O","F","_","H","O","S","T","_","M","E","M","O","R","Y">>
s_VK_IMAGE_TYPE_2D == <<"V","K","_","I","M","A","G","E","_","T","Y","P","E","_","2","D">>
s_ERROR_OUT_OF_HOST_MEMORY == <<"E","R","R","O","R","_","O","U","T","_","O","F","_","H","O","S","T","_","M","E","M","O","R","Y">>
s_2D == <<"2","D">>

StringsUpTo(alphabet, n) == UNION {[1..k -> alphabet] : k \in 0..n}

OwnerAlphabet == {"V", "k"}
OwnerNames == StringsUpTo(OwnerAlphabet, MaxOwnerLen) \cup {s_VkResult, s_VkImageType}

VariantTokens == {<<"V","K">>, <<"A">>, str_BIT, s_NV, <<>>}
VariantNames ==
    {join(ts) : ts \in UNION {[1..k -> VariantTokens] : k \in 1..MaxVariantTokens}}
        \cup {s_VK_ERROR_OUT_OF_HOST_MEMORY, s_VK_IMAGE_TYPE_2D}

TypeAlphabet == {"V", "k", "F"}
TypeNames == StringsUpTo(TypeAlphabet, MaxTypeLen)

KindMarkers ==
    {None, Some(str_bitmask), Some(str_enum), Some(<<>>),
     Some(<<"E","n","u","m">>), Some(<<"b","i","t","m","a","s">>), Some(<<"f","l","a","g","s">>)}

\* The registries the queried Contexts are built from: tags are all the
\* name derivation reads.
NameRegistries == {<<>>} \cup {<<n>> : n \in {m \in NodePool : m.kind = "Tags"}}

\* The Context that from_registry returns for a registry without unnamed
\* enum groups, when the tag set iterates in the given order.
from_registry(reg, order) ==
    LET extension_by_name == collect_extensions(EmptyMap, reg)
    IN  [extension_by_name |-> extension_by_name,
         type_by_name |-> EmptyMap,
         enums_by_name |-> collect_enums(EmptyMap, reg),
         extension_enums |-> collect_extended_enums(EmptyMap, extension_by_name),
         tags |-> collect_tags({}, reg),
         tags_iter |-> order]

InitNames ==
    /\ registry \in {<<r, r>> : r \in NameRegistries}
    /\ \E order \in SetOrders(collect_tags({}, registry[1])) :
           ctx = [b \in Builds |-> from_registry(registry[b], order)]
    /\ pc = [b \in Builds |-> "Ok"]
    /\ call = NoCall

EnumKind ==
    /\ call.op = "none"
    /\ \E kind \in KindMarkers :
           call' = [op |-> "enum_kind", panicked |-> enum_kind(kind) = Panic,
                    kind |-> kind, result |-> enum_kind(kind)]
    /\ UNCHANGED <<registry, ctx, pc>>

RustTypeName ==
    /\ call.op = "none"
    /\ \E name \in TypeNames :
           call' = [op |-> "rust_type_name", panicked |-> FALSE,
                    first |-> name, applications |-> 1,
                    name |-> name, result |-> rust_type_name(name)]
    /\ UNCHANGED <<registry, ctx, pc>>

\* rust_type_name applied to the name it returned.
RustTypeNameAgain ==
    /\ call.op = "rust_type_name"
    /\ call.applications = 1
    /\ call' = [call EXCEPT !.applications = 2,
                            !.name = call.result,
                            !.result = rust_type_name(call.result)]
    /\ UNCHANGED <<registry, ctx, pc>>

RustEnumVariantName ==
    /\ call.op = "none"
    /\ \E enum_name \in OwnerNames, variant_name \in VariantNames :
           call' = [op |-> "rust_enum_variant_name", panicked |-> FALSE,
                    enum_name |-> enum_name, variant_name |-> variant_name]
                   @@ rust_enum_variant_name(ctx[1].tags, enum_name, variant_name)
    /\ UNCHANGED <<registry, ctx, pc>>

Return ==
    /\ call.op # "none"
    /\ ~call.panicked
    /\ call' = NoCall
    /\ UNCHANGED <<registry, ctx, pc>>

NextNames ==
    \/ EnumKind
    \/ RustTypeName
    \/ RustTypeNameAgain
    \/ RustEnumVariantName
    \/ Return

SpecNames == InitNames /\ [][NextNames]_vars

(***************************************************************************)
(* Properties of rust_enum_variant_name (checked under SpecNames).         *)
(***************************************************************************)
VariantCall == call.op = "rust_enum_variant_name"

ValueTokens == split(call.variant_name)

\* The i-th token of the upper-snake-cased owner name, empty where it has none.
OwnerToken(i) ==
    LET p == split(call.prefix) IN IF i <= Len(p) THEN p[i] ELSE <<>>

\* The positions whose value token differs from the owner's token.
Kept ==
    LET value == ValueTokens
        owner == split(call.prefix)
    IN  {i \in 1..Len(value) :
            value[i] # (IF i <= Len(owner) THEN owner[i] ELSE <<>>)}

\* C1: the stripped name is exactly the value tokens at the positions that
\* differ from the owner's token at the same position, in their original
\* order; ("VkResult", "VK_ERROR_OUT_OF_HOST_MEMORY") gives
\* "ERROR_OUT_OF_HOST_MEMORY" and ("VkImageType", "VK_IMAGE_TYPE_2D") "2D".
C1_StrippedIsPositionalDiff ==
    VariantCall =>
        /\ LET value == ValueTokens
               kept == Kept
           IN  /\ Len(call.stripped) = Cardinality(kept)
               /\ \A i \in kept :
                      call.stripped[Cardinality({j \in kept : j <= i})] = value[i]
        /\ (call.enum_name = s_VkResult
                /\ call.variant_name = s_VK_ERROR_OUT_OF_HOST_MEMORY
              => join(call.stripped) = s_ERROR_OUT_OF_HOST_MEMORY)
        /\ (call.enum_name = s_VkImageType
                /\ call.variant_name = s_VK_IMAGE_TYPE_2D
              => call.stripped = <<s_2D>>)

\* A call in which a token is dropped behind a token that is kept.
C1_Witness ==
    /\ VariantCall
    /\ \E i, j \in 1..Len(ValueTokens) :
           i < j /\ i \in Kept /\ j \notin Kept /\ ValueTokens[j] # <<>>

\* C2: the trailing token of the stripped name is removed by the tag step
\* if and only if it is a tag of the Context and the stripped name has more
\* than one token; otherwise the tag step leaves the name unchanged.
C2_TagStrippedIffTagAndNotAlone ==
    VariantCall =>
        LET s == call.stripped
        IN  IF Len(s) > 1 /\ s[Len(s)] \in ctx[1].tags
            THEN call.after_tag = SubSeq(s, 1, Len(s) - 1)
            ELSE call.after_tag = s

\* A call whose stripped name has several tokens and loses its trailing tag.
C2_Witness ==
    /\ VariantCall
    /\ Len(call.stripped) > 1
    /\ call.stripped[Len(call.stripped)] \in ctx[1].tags
    /\ Len(call.after_tag) = Len(call.stripped) - 1

\* C3: the final tokens are the stripped tokens minus at most one trailing
\* tag and then minus at most one trailing "BIT"; nothing else is removed,
\* and the identifier is the final tokens joined by '_' (possibly empty).
C3_BitAfterTagAtMostOnce ==
    VariantCall =>
        LET s == call.stripped
            t == call.after_tag
            f == call.name_str
        IN  /\ \/ t = s
               \/ /\ s # <<>>
                  /\ t = SubSeq(s, 1, Len(s) - 1)
                  /\ s[Len(s)] \in ctx[1].tags
            /\ IF t # <<>> /\ t[Len(t)] = str_BIT
               THEN f = SubSeq(t, 1, Len(t) - 1)
               ELSE f = t
            /\ IF f = <<>> THEN call.result = <<>> ELSE split(call.result) = f

\* A call that removes a trailing tag and then the "BIT" in front of it.
C3_Witness ==
    /\ VariantCall
    /\ Len(call.stripped) >= 3
    /\ Len(call.after_tag) = Len(call.stripped) - 1
    /\ Len(call.name_str) = Len(call.stripped) - 2
    /\ call.result # <<>>

\* C10 as stated: the shorter of the two token sequences is padded, so that
\* every position of the longer one is compared.
C10_BothSidesPadded ==
    VariantCall =>
        LET p == split(call.prefix)
            n == IF Len(p) > Len(ValueTokens) THEN Len(p) ELSE Len(ValueTokens)
        IN  /\ Len(call.pairs) = n
            /\ \A i \in 1..n :
                   call.pairs[i] = << OwnerToken(i),
                                      IF i <= Len(ValueTokens) THEN ValueTokens[i]
                                      ELSE <<>> >>

\* C10, amended: only the owner's tokens are padded; exactly the positions of
\* the value tokens are compared, and owner tokens beyond them are ignored.
C10_OnlyPrefixPadded ==
    VariantCall =>
        /\ Len(call.pairs) = Len(ValueTokens)
        /\ \A i \in 1..Len(ValueTokens) :
               call.pairs[i] = <<OwnerToken(i), ValueTokens[i]>>
        /\ Len(call.stripped) <= Len(ValueTokens)

\* A call whose raw name has fewer tokens than the owner's name.
C10_Witness ==
    /\ VariantCall
    /\ Len(ValueTokens) < Len(split(call.prefix))
    /\ Len(call.pairs) = Len(ValueTokens)

(***************************************************************************)
(* Properties of rust_type_name and enum_kind (checked under SpecNames).   *)
(***************************************************************************)
TypeNameCall == call.op = "rust_type_name"

\* The prefix constant repeated k times.
RECURSIVE Repeated(_, _)
Repeated(pat, k) == IF k = 0 THEN <<>> ELSE pat \o Repeated(pat, k - 1)

\* C4 as stated: rust_type_name removes a single occurrence of the prefix
\* from the front of a name that starts with it (a name that starts with the
\* prefix twice keeps the second one) and returns any other name unchanged.
C4_SinglePrefixRemoved ==
    TypeNameCall =>
        IF starts_with(call.name, TYPE_PREFIX)
        THEN call.name = TYPE_PREFIX \o call.result
        ELSE call.result = call.name

\* C4, amended: rust_type_name removes every leading repetition of the
\* prefix: the name is some number of prefixes followed by the result, and
\* the result does not start with the prefix; a name that does not start
\* with the prefix is returned unchanged.
C4_EveryLeadingPrefixRemoved ==
    TypeNameCall =>
        /\ \E k \in 0..Len(call.name) :
               call.name = Repeated(TYPE_PREFIX, k) \o call.result
        /\ ~starts_with(call.result, TYPE_PREFIX)
        /\ (~starts_with(call.name, TYPE_PREFIX) => call.result = call.name)

\* A first call on a name that starts with the prefix twice.
C4_Witness ==
    /\ TypeNameCall
    /\ call.applications = 1
    /\ starts_with(call.name, TYPE_PREFIX \o TYPE_PREFIX)
    /\ Len(call.result) = Len(call.name) - 2 * Len(TYPE_PREFIX)
    /\ call.result # <<>>

\* C5: rust_type_name is idempotent: applied to the name it returned (the
\* name of a second application), it returns that name again.
C5_TypeNameIdempotent ==
    (TypeNameCall /\ call.applications = 2) =>
        call.result = call.name

\* A second application, after a first one that removed two prefixes.
C5_Witness ==
    /\ TypeNameCall
    /\ call.applications = 2
    /\ starts_with(call.first, TYPE_PREFIX \o TYPE_PREFIX)
    /\ call.result # call.first

\* C6: enum_kind returns Bitflag for the marker "bitmask", Enum for "enum"
\* and Constant for an absent marker; for every other marker it panics and
\* returns no kind.
C6_EnumKindClassification ==
    call.op = "enum_kind" =>
        /\ call.kind = None => call.result = "Constant" /\ ~call.panicked
        /\ call.kind = Some(str_bitmask) => call.result = "Bitflag" /\ ~call.panicked
        /\ call.kind = Some(str_enum) => call.result = "Enum" /\ ~call.panicked
        /\ call.kind \notin {None, Some(str_bitmask), Some(str_enum)} =>
               /\ call.panicked
               /\ call.result \notin {"Bitflag", "Enum", "Constant"}

\* enum_kind called on a group whose marker is neither "bitmask" nor "enum".
C6_Witness ==
    /\ call.op = "enum_kind"
    /\ call.kind # None
    /\ call.kind[1] \notin {<<>>, str_bitmask, str_enum}
    /\ call.panicked

(***************************************************************************)
(* Properties of Context::from_registry (checked under Spec).              *)
(***************************************************************************)
Aggregated(b) == pc[b] \in {"extended_enums", "Ok", "Err"}

\* The extends target of an enumerant: Offset always, Value, Bitpos and
\* Alias when declared, any other payload none.
Target(e) ==
    IF e.spec.variant = "Offset" THEN Some(e.spec.extends)
    ELSE IF e.spec.variant \in {"Value", "Bitpos", "Alias"} /\ e.spec.extends # None
         THEN e.spec.extends
    ELSE None

\* The places <<extension name, require block, item>> of the indexed
\* extensions at which an enumerant extends the group t.
Contributions(b, t) ==
    LET exts == ctx[b].extension_by_name
    IN  UNION {UNION {{<<n, ci, ii>> :
                          ii \in {k \in 1..Len(exts[n].children[ci].items) :
                                     LET item == exts[n].children[ci].items[k]
                                     IN  item.kind = "Enum" /\ Target(item.e) = Some(t)}} :
                      ci \in {c \in 1..Len(exts[n].children) :
                                 exts[n].children[c].kind = "Require"}} :
               n \in DOMAIN exts}

\* Extension name order first, declaration order within an extension next.
Before(k1, k2) ==
    \/ str_lt(k1[1], k2[1])
    \/ /\ k1[1] = k2[1]
       /\ \/ k1[2] < k2[2]
          \/ k1[2] = k2[2] /\ k1[3] < k2[3]

GroupNames == {s_VkF, s_VkG}

IsSorted(names) ==
    \A i, j \in 1..Len(names) : i < j => str_lt(names[i], names[j])

\* C8: two registries with the same children in a different order give
\* Contexts whose indices (extensions, enum groups, types, tags) and
\* aggregates iterate identically and in key order.
C8_SameIterationForReorderedRegistry ==
    (pc[1] = "Ok" /\ pc[2] = "Ok") =>
        /\ iter(ctx[1].extension_by_name) = iter(ctx[2].extension_by_name)
        /\ iter(ctx[1].enums_by_name) = iter(ctx[2].enums_by_name)
        /\ iter(ctx[1].type_by_name) = iter(ctx[2].type_by_name)
        /\ iter(ctx[1].extension_enums) = iter(ctx[2].extension_enums)
        /\ ctx[1].tags_iter = ctx[2].tags_iter
        /\ IsSorted(ctx[1].tags_iter)
        /\ IsSorted(ctx[2].tags_iter)

\* What the registry of build b declares.
DeclaredTags(b) == children_of(registry[b], "Tags")
DeclaredExtensions(b) == children_of(registry[b], "Extensions")
DeclaredTypes(b) == children_of(registry[b], "Types")

\* C9: when from_registry returns Ok, the Context holds every declared tag,
\* and maps every declared extension name, enum group name and type name
\* to a node of that name.
C9_IndicesPopulated ==
    \A b \in Builds :
        pc[b] = "Ok" =>
            /\ \A i \in 1..Len(DeclaredTags(b)) :
                   DeclaredTags(b)[i].name \in ctx[b].tags
            /\ \A i \in 1..Len(DeclaredExtensions(b)) :
                   LET name == DeclaredExtensions(b)[i].name
                   IN  /\ name \in DOMAIN ctx[b].extension_by_name
                       /\ ctx[b].extension_by_name[name].name = name
            /\ \A i \in 1..Len(registry[b]) :
                   registry[b][i].kind = "Enums" =>
                       LET name == registry[b][i].name[1]
                       IN  /\ name \in DOMAIN ctx[b].enums_by_name
                           /\ ctx[b].enums_by_name[name].name = Some(name)
            /\ \A i \in 1..Len(DeclaredTypes(b)) :
                   LET name == DeclaredTypes(b)[i].name
                   IN  /\ name \in DOMAIN ctx[b].type_by_name
                       /\ ctx[b].type_by_name[name].name = name

====
